---- MODULE Spec2Model ----
(***************************************************************************)
(* Incremental document indexing pipeline of legal-rag-agent:              *)
(* src/src/chunking.py (article segmentation, token-budgeted windows) and  *)
(* src/src/build_index.py (manifest change detection, parallel embedding,  *)
(* bounded upsert queue with a background consumer, manifest commit).      *)
(*                                                                         *)
(* Texts are sequences of one-character strings.  Offsets are Python's:    *)
(* 0-based, half-open, so text[a:b] is SubSeq(text, a + 1, b).             *)
(* The Georgian keyword of the article header is written with the Latin    *)
(* stand-ins m,u,x,l,i: five characters, like the original.                *)
(***************************************************************************)
EXTENDS Integers, Sequences, FiniteSets, TLC

(***************************************************************************)
(* Bounds and configuration of the model.                                  *)
(***************************************************************************)
NumDocs == 2          \* files matched by data_glob, in sorted order
MaxRepeats == 2       \* times a generator that never ends is followed through
                      \* one and the same window

\* Environment configuration read by build_index (os.getenv).
TargetTokens == 19    \* CHUNK_TARGET_TOKENS
OverlapTokens == 1    \* CHUNK_OVERLAP_TOKENS
BatchSize == 2        \* INDEX_BATCH_SIZE
QueueMaxSize == 2     \* Queue(maxsize=2)

Min(a, b) == IF a <= b THEN a ELSE b
Max(a, b) == IF a >= b THEN a ELSE b

(***************************************************************************)
(* Python string primitives.                                               *)
(***************************************************************************)
\* text[a:b] for 0 <= a, b (clamped like a Python slice)
Slice(t, a, b) == SubSeq(t, a + 1, Min(b, Len(t)))

\* str.isspace() for one character of the model's alphabet
IsSpace(c) == c \in {" ", "\n"}

IsDigit(c) == c \in {"0", "1", "2", "3", "4", "5", "6", "7", "8", "9"}

\* str.strip(): drop leading and trailing whitespace
RECURSIVE LStrip(_)
LStrip(t) == IF t # <<>> /\ IsSpace(Head(t)) THEN LStrip(Tail(t)) ELSE t

RECURSIVE RStrip(_)
RStrip(t) ==
    IF t # <<>> /\ IsSpace(t[Len(t)]) THEN RStrip(SubSeq(t, 1, Len(t) - 1)) ELSE t

Strip(t) == RStrip(LStrip(t))

\* sep occurs in t at 0-based offset i
OccursAt(t, sep, i) ==
    /\ i >= 0
    /\ i + Len(sep) <= Len(t)
    /\ \A k \in 1..Len(sep) : t[i + k] = sep[k]

\* str.rfind(sep, lo, hi): the highest offset i with lo <= i and
\* i + len(sep) <= min(hi, len(t)) where sep occurs, or -1
RFind(t, sep, lo, hi) ==
    LET top == Min(hi, Len(t))
        hits == {i \in lo..(top - Len(sep)) : OccursAt(t, sep, i)}
    IN  IF hits = {} THEN -1 ELSE CHOOSE i \in hits : \A j \in hits : j <= i

(***************************************************************************)
(* chunking.py: _find_article_sections                                     *)
(***************************************************************************)
Keyword == <<"m", "u", "x", "l", "i">>

\* the letters of the Georgian script that occur in the texts
Georgian == {"m", "u", "x", "l", "i"}

\* offset of the first character at or after p that is not whitespace
RECURSIVE SkipSpaces(_, _)
SkipSpaces(t, p) ==
    IF p < Len(t) /\ IsSpace(t[p + 1]) THEN SkipSpaces(t, p + 1) ELSE p

RECURSIVE SkipDigits(_, _)
SkipDigits(t, p) ==
    IF p < Len(t) /\ IsDigit(t[p + 1]) THEN SkipDigits(t, p + 1) ELSE p

\* offset of the end of the line holding offset p ('.*$' under re.M)
RECURSIVE LineEnd(_, _)
LineEnd(t, p) == IF p < Len(t) /\ t[p + 1] # "\n" THEN LineEnd(t, p + 1) ELSE p

\* '^' under re.M
IsLineStart(t, p) == p = 0 \/ (p <= Len(t) /\ t[p] = "\n")

\* article_re matched at offset p: [ok, end, article]
\*   ^(\s*KEYWORD\s+(\d+)[\.|\s].*)$
MatchArticle(t, p) ==
    LET k  == SkipSpaces(t, p)
        s  == k + Len(Keyword)
        d  == SkipSpaces(t, s)
        e  == SkipDigits(t, d)
        ok == /\ IsLineStart(t, p)
              /\ OccursAt(t, Keyword, k)
              /\ d > s
              /\ e > d
              /\ e < Len(t)
              /\ (t[e + 1] \in {".", "|"} \/ IsSpace(t[e + 1]))
    IN  [ok |-> ok,
         end |-> IF ok THEN LineEnd(t, e + 1) ELSE p,
         article |-> IF ok THEN Slice(t, d, e) ELSE <<>>]

\* the first offset after p at which '^' matches, or len(t) + 1
NextLineStart(t, p) ==
    LET nls == {i \in (p + 1)..Len(t) : t[i] = "\n"}
    IN  IF nls = {} THEN Len(t) + 1 ELSE CHOOSE i \in nls : \A j \in nls : i <= j

\* re.finditer: the non-overlapping matches from offset p on, leftmost first;
\* a match starts at a line start, so the scan moves from one to the next
RECURSIVE FindArticles(_, _)
FindArticles(t, p) ==
    IF p > Len(t) THEN <<>>
    ELSE LET m == MatchArticle(t, p)
         IN  IF m.ok
             THEN <<[start |-> p, end |-> m.end, article |-> m.article,
                     title |-> Strip(Slice(t, p, m.end))]>>
                  \o FindArticles(t, IF m.end > p THEN m.end ELSE p + 1)
             ELSE FindArticles(t, IF IsLineStart(t, p) THEN NextLineStart(t, p)
                                                      ELSE p + 1)

\* the title of the one block of a text without article header: "FULL_TEXT"
FullText == <<"F", "U", "L", "L", "_", "T", "E", "X", "T">>

\* the blocks (start, end, meta) of a text, in document order
find_article_sections(t) ==
    LET ms == FindArticles(t, 0)
    IN  IF ms = <<>>
        THEN <<[start |-> 0, end |-> Len(t),
                section_title |-> FullText, article |-> <<>>]>>
        ELSE [i \in 1..Len(ms) |->
                [start |-> ms[i].start,
                 end |-> IF i + 1 <= Len(ms) THEN ms[i + 1].start ELSE Len(t),
                 section_title |-> ms[i].title,
                 article |-> ms[i].article]]

(***************************************************************************)
(* chunking.py: _count_tokens and iter_chunks                              *)
(***************************************************************************)
\* len(text.encode("utf-8")): a Georgian letter takes three bytes, every
\* other character of the model's alphabet one
Utf8Len(t) == Len(t) + 2 * Cardinality({i \in 1..Len(t) : t[i] \in Georgian})

\* line 7: _ENCODING comes from the library tiktoken, which is not part of
\* the repository: a byte-pair encoding whose vocabulary decides, from the
\* content of a text, how many tokens it has.  What every such encoding
\* guarantees is that its tokens divide the bytes of the text among them:
\* no token for the empty text, otherwise at least one token and at most one
\* per byte.  (The texts of the model hold none of the special tokens on
\* which encode() raises.)
TokenCounts(t) == IF t = <<>> THEN {0} ELSE 1..Utf8Len(t)

\* the functions that give each text t of ts one of the numbers counts[t]
RECURSIVE Tables(_, _)
Tables(ts, counts) ==
    IF ts = {} THEN {[t \in {} |-> 0]}
    ELSE LET t == CHOOSE x \in ts : TRUE
         IN  {(t :> n) @@ f : n \in counts[t], f \in Tables(ts \ {t}, counts)}

\* the encodings, as far as the texts ts are concerned: an encoding is the
\* number of tokens it gives each of them
EncodingsOn(ts) == Tables(ts, [t \in ts |-> TokenCounts(t)])

\* lines 34-36: len(_ENCODING.encode(text))
count_tokens(enc, t) == enc[t]

\* line 54: avg_chars_per_token = len(block) / max(1, _count_tokens(block)):
\* the two integers of the quotient, which Python rounds to a double
AvgCharsPerToken(enc, block) ==
    [chars |-> Len(block), tokens |-> Max(1, count_tokens(enc, block))]

RECURSIVE Pow2(_)
Pow2(n) == IF n = 0 THEN 1 ELSE 2 * Pow2(n - 1)

\* floor(log2(x)) for an integer x >= 1
RECURSIVE Log2Int(_)
Log2Int(x) == IF x < 2 THEN 0 ELSE 1 + Log2Int(x \div 2)

\* the least j with a * 2^j >= b, for integers a, b >= 1
RECURSIVE Doublings(_, _)
Doublings(a, b) == IF a >= b THEN 0 ELSE 1 + Doublings(2 * a, b)

\* floor(log2(a / b)) for integers a, b >= 1: the exponent of the double a / b
Log2Ratio(a, b) == IF a >= b THEN Log2Int(a \div b) ELSE 0 - Doublings(a, b)

\* k more binary digits of the quotient r / c, r < c: the remainder after
\* them and the last of the digits
RECURSIVE LongDivision(_, _, _, _)
LongDivision(r, last, c, k) ==
    IF k = 0 THEN [rem |-> r, digit |-> last]
    ELSE LongDivision((2 * r) % c, (2 * r) \div c, c, k - 1)

\* lines 57 and 84: int(tokens * avg_chars_per_token), in IEEE 754 doubles:
\* the quotient chars / tokens is rounded to 53 significant bits (to the
\* nearest, ties to the even one), the product with it is rounded the same
\* way, and int() drops the fraction.  When the exact product is no integer,
\* the two roundings (less than 2^-51 of it) cannot carry it across one, and
\* the result is its floor.  When it is an integer x, the result is x - 1
\* if the quotient was rounded down by so much that the product is rounded
\* to the double below x, and x otherwise.  The quotient is rounded down by
\* rem / tokens units of its last place, rem the remainder of the long
\* division after 53 significant bits; the doubles below x are Pow2(ex - e)
\* of these units apart, half as much when x is a power of two.
TokensToChars(avg, tokens) ==
    LET c    == avg.tokens
        prod == tokens * avg.chars
        x    == prod \div c
    IN  IF prod % c # 0 \/ x = 0 THEN x
        ELSE LET e    == Log2Ratio(avg.chars, c)
                 d    == LongDivision(avg.chars % c, 0, c, 52 - e)
                 down == /\ d.rem # 0
                         /\ (2 * d.rem < c \/ (2 * d.rem = c /\ d.digit = 0))
                 ex   == Log2Int(x)
                 gap  == IF Pow2(ex) = x THEN 2 ELSE 1
             IN  IF down /\ 2 * tokens * d.rem * gap > c * Pow2(ex - e)
                 THEN x - 1
                 ELSE x

Separators == << <<"\n", "\n">>, <<"\n">>, <<".", " ">>, <<"?", " ">>, <<"!", " ">> >>

\* lines 60-65: the end of the first separator, in priority order, that
\* occurs in block[start:end], or -1
RECURSIVE SnapBoundary(_, _, _, _)
SnapBoundary(block, start, end, k) ==
    IF k > Len(Separators) THEN -1
    ELSE LET idx == RFind(block, Separators[k], start, end)
         IN  IF idx # -1 THEN idx + Len(Separators[k])
             ELSE SnapBoundary(block, start, end, k + 1)

\* lines 57-69: one window from cursor start: its end and trimmed content
Window(block, avg, start, target_tokens) ==
    LET approx   == TokensToChars(avg, target_tokens)
        end0     == Min(Len(block), start + approx)
        boundary == SnapBoundary(block, start, end0, 1)
        end      == IF boundary # -1 /\ boundary > start THEN boundary ELSE end0
    IN  [end |-> end, content |-> Strip(Slice(block, start, end))]

\* lines 84-85: the cursor of the next window
NextStart(avg, end, overlap_tokens) ==
    Max(0, end - TokensToChars(avg, overlap_tokens))

\* What a generator yields: the chunks in `chunks`, and after them the chunks
\* in `cycle` again and again without end.  A generator that ends has no
\* cycle.
EndedStream(chunks) == [chunks |-> chunks, cycle |-> <<>>]

\* lines 56-85: what the while loop of one block yields from cursor start
\* on, after the chunks in acc were yielded at the cursors in cursors.  The
\* cursor determines the rest of the loop, so a loop that comes back to a
\* cursor it has been at yields the chunks since then again, without end.
RECURSIVE BlockChunks(_, _, _, _, _, _)
BlockChunks(blk, block, start, cfg, cursors, acc) ==
    IF ~(start < Len(block)) THEN EndedStream(acc)
    ELSE IF \E k \in 1..Len(cursors) : cursors[k] = start
    THEN LET k == CHOOSE j \in 1..Len(cursors) : cursors[j] = start
         IN  [chunks |-> SubSeq(acc, 1, k - 1), cycle |-> SubSeq(acc, k, Len(acc))]
    ELSE LET avg == AvgCharsPerToken(cfg.encoding, block)
             w == Window(block, avg, start, cfg.target)
             c == [content |-> w.content,
                   start |-> blk.start + start,
                   end |-> blk.start + w.end,
                   section_title |-> blk.section_title,
                   article |-> blk.article]
         IN  IF w.content = <<>> THEN EndedStream(acc)
             ELSE IF w.end >= Len(block) THEN EndedStream(Append(acc, c))
             ELSE BlockChunks(blk, block, NextStart(avg, w.end, cfg.overlap), cfg,
                              Append(cursors, start), Append(acc, c))

\* line 52: the blocks in order; the next block is reached only when the
\* loop of the block before it has ended
RECURSIVE ChunksOfBlocks(_, _, _, _)
ChunksOfBlocks(t, blocks, i, cfg) ==
    IF i > Len(blocks) THEN EndedStream(<<>>)
    ELSE LET r == BlockChunks(blocks[i], Slice(t, blocks[i].start, blocks[i].end),
                              0, cfg, <<>>, <<>>)
         IN  IF r.cycle # <<>> THEN r
             ELSE LET rest == ChunksOfBlocks(t, blocks, i + 1, cfg)
                  IN  [chunks |-> r.chunks \o rest.chunks, cycle |-> rest.cycle]

\* iter_chunks(text, target_tokens, overlap_tokens, use_sections=True), under
\* the encoding enc of line 7: the stream of its chunks
iter_chunks(enc, t, target_tokens, overlap_tokens) ==
    ChunksOfBlocks(t, find_article_sections(t), 1,
                   [encoding |-> enc, target |-> target_tokens,
                    overlap |-> overlap_tokens])

\* the texts of the blocks of t: the texts line 54 counts the tokens of
BlockTexts(t) ==
    LET blocks == find_article_sections(t)
    IN  {Slice(t, blocks[i].start, blocks[i].end) : i \in 1..Len(blocks)}

\* the first n chunks of a stream, or all of them if it ends before
RECURSIVE StreamAhead(_, _)
StreamAhead(s, n) ==
    IF Len(s.chunks) >= n \/ s.cycle = <<>> THEN SubSeq(s.chunks, 1, Min(n, Len(s.chunks)))
    ELSE StreamAhead([chunks |-> s.chunks \o s.cycle, cycle |-> s.cycle], n)

\* the stream after its first n chunks
RECURSIVE StreamAfter(_, _)
StreamAfter(s, n) ==
    IF Len(s.chunks) >= n \/ s.cycle = <<>>
    THEN [chunks |-> SubSeq(s.chunks, Min(n, Len(s.chunks)) + 1, Len(s.chunks)),
          cycle |-> s.cycle]
    ELSE StreamAfter([chunks |-> s.chunks \o s.cycle, cycle |-> s.cycle], n)

(***************************************************************************)
(* The corpus: the files data_glob matches, in sorted order.  With the     *)
(* default glob data/processed/*.txt the files lie in one directory, so    *)
(* their stems (the document ids) are distinct: document d is the d-th     *)
(* file.  The files are written by other processes (ingest.py lines 67-80,  *)
(* extract_pdf.py line 35) at any time, before, during and between the     *)
(* runs of build_index: a file has two versions of its content, and a run   *)
(* that reads it finds either.                                             *)
(***************************************************************************)
Docs == 1..NumDocs
Versions == {1, 2}

Letters == <<"a", "b", "c", "d", "e", "f", "g">>

RECURSIVE Body(_, _)
Body(n, k) ==
    IF n = 0 THEN <<>> ELSE <<Letters[(k % Len(Letters)) + 1]>> \o Body(n - 1, k + 1)

Digits == <<"0", "1", "2", "3", "4", "5", "6", "7", "8", "9">>

\* an article with a one-line header and a body without separators
Article(d, n) == Keyword \o <<" ", Digits[(d % 10) + 1], "|">> \o Body(n, d)

\* a line of n characters
Line(n, k) == Body(n - 1, k) \o <<"\n">>

\* an article of a header line and four lines
LongArticle(d) ==
    Article(d, 0) \o <<"\n">> \o Line(10, 0) \o Line(10, 1) \o Line(10, 2) \o Line(10, 3)

\* one more content a file may have: none
Empty == 3

\* the content of file d in version v
FileText(d, v) ==
    IF v = Empty THEN <<>>
    ELSE IF d = 1 THEN (IF v = 1 THEN LongArticle(1) ELSE Article(1, 1))
    ELSE IF v = 1 THEN Article(d, 1) ELSE <<" ", " ">>

\* os.path.splitext(os.path.basename(file_path))[0]
DocId(d) == d

\* the texts of the blocks of the corpus
CorpusBlocks ==
    UNION {BlockTexts(FileText(d, v)) : d \in Docs, v \in Versions \cup {Empty}}

\* what the while loop yields for a block of text b that has n tokens, under
\* CHUNK_TARGET_TOKENS and CHUNK_OVERLAP_TOKENS
WindowsUnder(b, n) ==
    BlockChunks([start |-> 0, end |-> Len(b), section_title |-> <<>>,
                 article |-> <<>>],
                b, 0,
                [encoding |-> (b :> n), target |-> TargetTokens,
                 overlap |-> OverlapTokens],
                <<>>, <<>>)

\* build_index sees the encoding only through the windows of the blocks.  Of
\* the numbers of tokens that give a block of the corpus the same windows,
\* the least stands for all of them.
DistinctCounts ==
    [b \in CorpusBlocks |->
        LET w == [n \in TokenCounts(b) |-> WindowsUnder(b, n)]
        IN  {n \in TokenCounts(b) : \A m \in TokenCounts(b) : m < n => w[m] # w[n]}]

\* the encodings of the corpus: one for every way the blocks of the corpus
\* can be cut into windows
Tokenizers == Tables(CorpusBlocks, DistinctCounts)

(***************************************************************************)
(* build_index.py: content hash and manifest                               *)
(***************************************************************************)
Alphabet == Letters \o Digits \o Keyword \o <<" ", "\n", ".", "|", "?", "!">>

CharCode(c) == CHOOSE i \in 1..Len(Alphabet) : Alphabet[i] = c

\* hashlib.md5(text.encode("utf-8")).hexdigest(): a digest of the whole
\* content, modelled by a polynomial digest (no two texts of the corpus
\* collide, as for MD5)
RECURSIVE Digest(_, _)
Digest(t, h) ==
    IF t = <<>> THEN h ELSE Digest(Tail(t), (h * 31 + CharCode(Head(t))) % 65521)

md5(t) == Digest(t, 7)

NoEntry == -1
EmptyManifest == [d \in Docs |-> NoEntry]

\* the lookup of a document id in a parsed manifest that is not a mapping,
\* or whose value for the id is not an object (a string, a list, null)
NotAnObject == -2
NotAMapping == [d \in Docs |-> NotAnObject]

\* a loader that never reads the file
LoadManifestNever(file) == EmptyManifest

\* lines 124-130: a missing or unparseable manifest file yields {}
LoadManifest(file) == IF file.kind = "json" THEN file.entries ELSE EmptyManifest

\* the manifest file: absent, not parseable, or the JSON of a mapping
AbsentFile == [kind |-> "absent", entries |-> EmptyManifest]
CorruptFile == [kind |-> "corrupt", entries |-> EmptyManifest]
JsonFile(m) == [kind |-> "json", entries |-> m]

\* a comparison that only looks for an entry, whatever its hash
IsUnchangedAnyEntry(m, d, h) == m[DocId(d)] # NoEntry

\* line 142: manifest.get(doc_id, {}).get("hash") == doc_hash
IsUnchanged(m, d, h) == m[DocId(d)] = h

(***************************************************************************)
(* build_index.py: _batch, cap on chunks, embedding, payloads              *)
(***************************************************************************)
NoCap == -1
\* None in a result slot of _embed_parallel
NoVector == <<>>

\* _batch: the next batch the generator of batches yields from the stream of
\* chunks, and the stream it leaves
BatchHead(stream, size) == StreamAhead(stream, size)
BatchRest(stream, size) == StreamAfter(stream, size)

\* the cap is not applied inside a batch
CapBatchKeepsAll(b, done, cap) == b

\* lines 177-178: the batch that crosses the cap is cut to the cap
CapBatch(b, done, cap) ==
    IF cap # NoCap /\ done + Len(b) > cap THEN SubSeq(b, 1, cap - done) ELSE b

\* the embedding backend: the vector it computes for one text
BackendEmbed(txt) == <<"vec", md5(txt), Len(txt)>>

\* results appended in completion order: the first free slot takes the vector
StoreResultAppended(vs, idx, v) ==
    [vs EXCEPT ![CHOOSE k \in 1..Len(vs) :
                    vs[k] = NoVector /\ \A j \in 1..(k - 1) : vs[j] # NoVector] = v]

\* line 73, vectors[idx] = fut.result()[0]
StoreResult(vs, idx, v) == [vs EXCEPT ![idx] = v]

\* records named by their position in the batch
BuildPayloadsBatchIds(d, b, vs) ==
    [i \in 1..Min(Len(b), Len(vs)) |->
        [id |-> <<DocId(d), i, i>>,
         values |-> vs[i],
         metadata |-> [doc_id |-> DocId(d),
                       section_title |-> b[i].section_title,
                       article |-> b[i].article,
                       start |-> b[i].start,
                       end |-> b[i].end,
                       text |-> b[i].content]]]

\* lines 185-197
BuildPayloads(d, b, vs) ==
    [i \in 1..Min(Len(b), Len(vs)) |->
        [id |-> <<DocId(d), b[i].start, b[i].end>>,
         values |-> vs[i],
         metadata |-> [doc_id |-> DocId(d),
                       section_title |-> b[i].section_title,
                       article |-> b[i].article,
                       start |-> b[i].start,
                       end |-> b[i].end,
                       text |-> b[i].content]]]

(***************************************************************************)
(* queue.Queue(maxsize=2)                                                  *)
(***************************************************************************)
\* an unbounded queue
CanPutAlways(queue) == TRUE

\* Queue.put returns only when the queue holds fewer than maxsize items
CanPut(queue) == Len(queue) < QueueMaxSize

\* a stack instead of a queue: the newest item first
QueueGetNewest(queue) ==
    [item |-> queue[Len(queue)], rest |-> SubSeq(queue, 1, Len(queue) - 1)]

\* Queue.get: the oldest item and the queue without it
QueueGet(queue) == [item |-> Head(queue), rest |-> Tail(queue)]

(***************************************************************************)
(* State of build_index and of its environment                             *)
(***************************************************************************)
VARIABLES
    manifestFile,  \* the persisted manifest file
    store,         \* the vector store: the ids of the records it holds
    workers,       \* EMBED_CONCURRENCY
    maxChunks,     \* MAX_CHUNKS_PER_DOC, or NoCap
    pc,            \* position of the orchestrator (the main thread)
    manifest,      \* the manifest in memory
    cur,           \* index of file_path in files
    docHash,       \* doc_hash of the current document
    gen,           \* chunks the generator has still to yield
    produced,      \* produced
    batchIdx,      \* batch_idx
    batch,         \* the batch being embedded
    vectors,       \* _embed_parallel: the preallocated result slots
    futures,       \* _embed_parallel: per index, its future: "submitted",
                   \* "done" (the call returned) or "failed" (it raised)
    pending,       \* _embed_parallel: indexes as_completed has yet to hand over
    payloads,      \* the records built for the batch
    q,             \* the upsert queue of the current document
    worker,        \* the upsert thread: "none", "waiting", "upserting",
                   \* "exited" (took the sentinel) or "dead" (upsert raised)
    workerItem,    \* the item the upsert thread is upserting
    \* history of the current run, kept for the properties
    loaded,        \* the manifest as loaded at the start of the run
    prevPc,        \* how the previous run ended: "returned", or "stopped" by an
                   \* exception or a kill ("idle": there was none)
    baseline,      \* the versions the previous run read, if it returned
    reads,         \* the versions this run has read, document by document
    indexed,       \* documents that entered indexing in this run
    committed,     \* documents whose manifest entry was set in this run
    enqueued,      \* per document, the batches put into its queue
    upsertLog,     \* the upsert calls the store received, in order
    embedCalls,    \* number of calls of the embedding backend
    embedOrder,    \* order in which the calls of the batch being embedded
                   \* finished
    embedFailed,   \* the batch whose embedding raised, or 0
    \* one call of iter_chunks, stepped window by window
    itPc,          \* "off", "segment", "window", "yielded" (suspended in the
                   \* yield) or "done"
    itText,        \* text
    itTarget,      \* target_tokens
    itOverlap,     \* overlap_tokens
    itBlocks,      \* blocks
    itBlock,       \* index in blocks of the block being windowed
    itStart,       \* start, the cursor inside the block
    itEnd,         \* end, the end of the window of the chunk yielded last
    itWindows,     \* chunks yielded from the block being windowed
    itYielded,     \* the chunks yielded so far
    itBlockOf,     \* per chunk yielded, the index of its block
    encoding       \* _ENCODING, the tokenizer of the process

env     == <<manifestFile, store, workers, maxChunks>>
main    == <<manifest, cur, docHash, gen, produced, batchIdx>>
embedSt == <<batch, vectors, futures, pending, payloads, embedOrder, embedFailed,
             embedCalls>>
upsSt   == <<q, worker, workerItem, upsertLog, enqueued>>
runHist == <<loaded, prevPc, baseline, reads, indexed, committed>>
pipeline == <<env, pc, main, embedSt, upsSt, runHist>>
chunker == <<itPc, itText, itTarget, itOverlap, itBlocks, itBlock, itStart,
             itEnd, itWindows, itYielded, itBlockOf, encoding>>
vars    == <<pipeline, chunker>>

\* the items of the queue: a batch of records with its number, or the
\* sentinel None
Sentinel == [batch |-> 0, recs |-> <<>>]

\* positions at which a run is over: not started, returned, raised, killed
Ended == {"idle", "returned", "raised", "crashed"}

\* the configurations of the process that are explored: EMBED_CONCURRENCY
\* and MAX_CHUNKS_PER_DOC, every value of each of the two in one of them,
\* under every encoding of the corpus
Configurations ==
    { [workers |-> 1, maxChunks |-> 3],
      [workers |-> 4, maxChunks |-> NoCap] }

Configured ==
    /\ \E c \in Configurations :
          /\ workers = c.workers
          /\ maxChunks = c.maxChunks
    /\ encoding \in Tokenizers

\* TIKTOKEN_ENCODING names no encoding tiktoken knows: there is no table
NoSuchEncoding == <<>>

Misconfigured ==
    /\ \E c \in Configurations :
          /\ workers = c.workers
          /\ maxChunks = c.maxChunks
    /\ encoding = NoSuchEncoding

\* no call of iter_chunks is being stepped
ChunkerOff ==
    /\ itPc = "off"
    /\ itText = <<>>
    /\ itTarget = 0
    /\ itOverlap = 0
    /\ itBlocks = <<>>
    /\ itBlock = 0
    /\ itStart = 0
    /\ itEnd = 0
    /\ itWindows = 0
    /\ itYielded = <<>>
    /\ itBlockOf = <<>>

\* no process has run yet
NotStarted ==
    /\ store = {}
    /\ pc = "idle"
    /\ manifest = EmptyManifest
    /\ cur = 0
    /\ docHash = NoEntry
    /\ gen = EndedStream(<<>>)
    /\ produced = 0
    /\ batchIdx = 0
    /\ batch = <<>>
    /\ vectors = <<>>
    /\ futures = <<>>
    /\ pending = {}
    /\ payloads = <<>>
    /\ q = <<>>
    /\ worker = "none"
    /\ workerItem = Sentinel
    /\ loaded = EmptyManifest
    /\ prevPc = "idle"
    /\ baseline = <<>>
    /\ reads = <<>>
    /\ indexed = {}
    /\ committed = {}
    /\ enqueued = [d \in Docs |-> {}]
    /\ upsertLog = <<>>
    /\ embedCalls = 0
    /\ embedOrder = <<>>
    /\ embedFailed = 0

Init ==
    /\ manifestFile = AbsentFile
    /\ Configured
    /\ NotStarted
    /\ ChunkerOff

\* the state of a process that is not inside a document's session
NoSession ==
    /\ docHash' = NoEntry
    /\ gen' = EndedStream(<<>>)
    /\ produced' = 0
    /\ batchIdx' = 0
    /\ batch' = <<>>
    /\ vectors' = <<>>
    /\ futures' = <<>>
    /\ pending' = {}
    /\ payloads' = <<>>
    /\ embedOrder' = <<>>
    /\ q' = <<>>
    /\ worker' = "none"
    /\ workerItem' = Sentinel

(***************************************************************************)
(* Environment                                                             *)
(***************************************************************************)
\* the process is killed: only the files, the manifest file and the store
\* survive.  A kill between open(manifest_path, "w") and the end of json.dump
\* finds the file truncated.
Crash ==
    /\ pc \notin Ended
    /\ pc' = "crashed"
    /\ NoSession
    /\ manifest' = EmptyManifest
    /\ cur' = 0
    /\ indexed' = {}
    /\ committed' = {}
    /\ enqueued' = [d \in Docs |-> {}]
    /\ upsertLog' = <<>>
    /\ embedCalls' = 0
    /\ embedFailed' = 0
    /\ reads' = <<>>
    /\ UNCHANGED <<env, loaded, prevPc, baseline>>
    /\ UNCHANGED chunker

(***************************************************************************)
(* build_index: the main thread                                            *)
(***************************************************************************)
\* lines 102-134: a new process runs build_index: load the manifest, collect
\* the files
StartRun ==
    /\ pc \in Ended
    /\ encoding # NoSuchEncoding
    /\ pc' = "loop"
    /\ manifest' = LoadManifest(manifestFile)
    /\ loaded' = LoadManifest(manifestFile)
    /\ cur' = 1
    /\ NoSession
    /\ prevPc' = IF pc \in {"raised", "crashed"} THEN "stopped" ELSE pc
    /\ baseline' = IF pc = "returned" THEN reads ELSE <<>>
    /\ reads' = <<>>
    /\ indexed' = {}
    /\ committed' = {}
    /\ enqueued' = [d \in Docs |-> {}]
    /\ upsertLog' = <<>>
    /\ embedCalls' = 0
    /\ embedFailed' = 0
    /\ UNCHANGED env
    /\ UNCHANGED chunker

\* line 136, the loop is exhausted; line 206: the process ends, and the
\* counters of the run are cleared with it
Return ==
    /\ pc = "loop"
    /\ cur > NumDocs
    /\ pc' = "returned"
    /\ manifest' = EmptyManifest
    /\ enqueued' = [d \in Docs |-> {}]
    /\ upsertLog' = <<>>
    /\ embedCalls' = 0
    /\ UNCHANGED <<env, cur, docHash, gen, produced, batchIdx, batch, vectors,
                   futures, pending, payloads, embedOrder, embedFailed, q,
                   worker, workerItem, runHist>>
    /\ UNCHANGED chunker

\* lines 137-144: the file is read with the content v its writers left; the
\* hash matches the manifest entry
SkipUnchanged(v) ==
    /\ pc = "loop"
    /\ cur <= NumDocs
    /\ manifest[DocId(cur)] # NotAnObject
    /\ IsUnchanged(manifest, cur, md5(FileText(cur, v)))
    /\ reads' = Append(reads, v)
    /\ cur' = cur + 1
    /\ UNCHANGED <<env, pc, manifest, docHash, gen, produced, batchIdx,
                   embedSt, upsSt, loaded, prevPc, baseline, indexed, committed>>
    /\ UNCHANGED chunker

\* lines 137-138: open() or read() raises (a directory, no permission, bytes
\* that are not UTF-8); nothing in build_index catches it
ReadFails ==
    /\ pc = "loop"
    /\ cur <= NumDocs
    /\ pc' = "raised"
    /\ UNCHANGED <<env, main, embedSt, upsSt, runHist, chunker>>

\* line 142: manifest.get(doc_id, {}).get("hash") raises AttributeError when
\* the parsed manifest or its value for doc_id has no method get; nothing in
\* build_index catches it
LookupFails(v) ==
    /\ pc = "loop"
    /\ cur <= NumDocs
    /\ manifest[DocId(cur)] = NotAnObject
    /\ reads' = Append(reads, v)
    /\ pc' = "raised"
    /\ UNCHANGED <<env, main, embedSt, upsSt, loaded, prevPc, baseline, indexed,
                   committed, chunker>>

\* lines 137-171: the file is read with the content v its writers left; the
\* hash differs: open the chunk generator, the queue and the upsert thread
StartIndexing(v) ==
    /\ pc = "loop"
    /\ cur <= NumDocs
    /\ manifest[DocId(cur)] # NotAnObject
    /\ LET text == FileText(cur, v)
       IN  /\ ~IsUnchanged(manifest, cur, md5(text))
           /\ docHash' = md5(text)
           /\ gen' = iter_chunks(encoding, text, TargetTokens, OverlapTokens)
    /\ produced' = 0
    /\ batchIdx' = 0
    /\ q' = <<>>
    /\ worker' = "waiting"
    /\ workerItem' = Sentinel
    /\ reads' = Append(reads, v)
    /\ indexed' = indexed \cup {cur}
    /\ pc' = "batch"
    /\ UNCHANGED <<env, manifest, cur, embedSt, upsertLog, enqueued, loaded,
                   prevPc, baseline, committed>>
    /\ UNCHANGED chunker

\* lines 174-183: the next batch of the generator, the cap, the start of
\* _embed_parallel
NextBatch ==
    /\ pc = "batch"
    /\ IF BatchHead(gen, BatchSize) = <<>>
          \/ (maxChunks # NoCap /\ produced >= maxChunks)
       THEN /\ pc' = "sentinel"
            /\ gen' = BatchRest(gen, BatchSize)
            /\ UNCHANGED <<produced, batchIdx, batch, vectors, futures, pending,
                           embedOrder>>
       ELSE LET b == CapBatch(BatchHead(gen, BatchSize), produced, maxChunks)
            IN  /\ gen' = BatchRest(gen, BatchSize)
                /\ produced' = produced + Len(b)
                /\ batchIdx' = batchIdx + 1
                /\ batch' = b
                /\ vectors' = [i \in 1..Len(b) |-> NoVector]
                /\ futures' = IF workers <= 1 THEN <<>>
                              ELSE [i \in 1..Len(b) |-> "submitted"]
                /\ pending' = 1..Len(b)
                /\ embedOrder' = <<>>
                /\ pc' = "embed"
    /\ UNCHANGED <<env, manifest, cur, docHash, payloads, embedFailed,
                   embedCalls, upsSt, runHist>>
    /\ UNCHANGED chunker

\* the texts of the batch
Texts(b) == [i \in 1..Len(b) |-> b[i].content]

\* lines 65-66 and 185-197: workers <= 1, one call for the whole batch
EmbedBatch ==
    /\ pc = "embed"
    /\ workers <= 1
    /\ vectors' = [i \in 1..Len(batch) |-> BackendEmbed(Texts(batch)[i])]
    /\ pending' = {}
    /\ embedOrder' = [i \in 1..Len(batch) |-> i]
    /\ embedCalls' = embedCalls + 1
    /\ payloads' = BuildPayloads(cur, batch, vectors')
    /\ pc' = "put"
    /\ UNCHANGED <<env, main, batch, futures, embedFailed, upsSt, runHist>>
    /\ UNCHANGED chunker

\* lines 65-66 and 185-197: the backend answers with fewer vectors than
\* texts; zip(batch, vectors) stops at the shorter of the two
EmbedBatchShort ==
    /\ pc = "embed"
    /\ workers <= 1
    /\ \E n \in 0..(Len(batch) - 1) :
          vectors' = [i \in 1..n |-> BackendEmbed(Texts(batch)[i])]
    /\ pending' = {}
    /\ embedOrder' = [i \in 1..Len(batch) |-> i]
    /\ embedCalls' = embedCalls + 1
    /\ payloads' = BuildPayloads(cur, batch, vectors')
    /\ pc' = "put"
    /\ UNCHANGED <<env, main, batch, futures, embedFailed, upsSt, runHist,
                   chunker>>

\* lines 65-66: the call raises; nothing in build_index catches it
EmbedBatchFails ==
    /\ pc = "embed"
    /\ workers <= 1
    /\ embedCalls' = embedCalls + 1
    /\ embedFailed' = batchIdx
    /\ pc' = "raised"
    /\ UNCHANGED <<env, main, batch, vectors, futures, pending, payloads,
                   embedOrder, upsSt, runHist>>
    /\ UNCHANGED chunker

\* line 69: the pool runs the submitted calls in submission order on
\* `workers` threads: the call of index i is running once fewer than
\* `workers` calls submitted before it are unfinished
Running(i) ==
    /\ i \in 1..Len(futures)
    /\ futures[i] = "submitted"
    /\ Cardinality({j \in 1..(i - 1) : futures[j] = "submitted"}) < workers

\* line 69, a pool thread: embed.embed([txt]) returns and its future is
\* done; the main thread may be in as_completed or leaving the with block
CallReturns(i) ==
    /\ pc \in {"embed", "shutdown"}
    /\ workers > 1
    /\ Running(i)
    /\ futures' = [futures EXCEPT ![i] = "done"]
    /\ embedOrder' = Append(embedOrder, i)
    /\ embedCalls' = embedCalls + 1
    /\ UNCHANGED <<env, pc, main, batch, vectors, pending, payloads, embedFailed,
                   upsSt, runHist>>
    /\ UNCHANGED chunker

\* line 69, a pool thread: the call raises, or returns no vector, so that
\* fut.result()[0] of line 73 will raise
CallRaises(i) ==
    /\ pc \in {"embed", "shutdown"}
    /\ workers > 1
    /\ Running(i)
    /\ futures' = [futures EXCEPT ![i] = "failed"]
    /\ embedOrder' = Append(embedOrder, i)
    /\ embedCalls' = embedCalls + 1
    /\ embedFailed' = batchIdx
    /\ UNCHANGED <<env, pc, main, batch, vectors, pending, payloads, upsSt,
                   runHist>>
    /\ UNCHANGED chunker

\* lines 70-73 and 185-197, the main thread: as_completed hands over a
\* future that is done, whichever, and its vector goes to its slot; after
\* the last one the records of the batch are built
EmbedDone(i) ==
    /\ pc = "embed"
    /\ workers > 1
    /\ i \in pending
    /\ futures[i] = "done"
    /\ vectors' = StoreResult(vectors, i, BackendEmbed(Texts(batch)[i]))
    /\ pending' = pending \ {i}
    /\ IF pending' = {}
       THEN /\ payloads' = BuildPayloads(cur, batch, vectors')
            /\ pc' = "put"
       ELSE UNCHANGED <<payloads, pc>>
    /\ UNCHANGED <<env, main, batch, futures, embedOrder, embedFailed,
                   embedCalls, upsSt, runHist>>
    /\ UNCHANGED chunker

\* the exception of a future is logged and swallowed: its slot stays None and
\* the batch goes on
EmbedFailsSwallowed(i) ==
    /\ pc = "embed"
    /\ workers > 1
    /\ i \in pending
    /\ futures[i] = "failed"
    /\ pending' = pending \ {i}
    /\ IF pending' = {}
       THEN /\ payloads' = BuildPayloads(cur, batch, vectors)
            /\ pc' = "put"
       ELSE UNCHANGED <<payloads, pc>>
    /\ UNCHANGED <<env, main, batch, vectors, futures, embedOrder, embedFailed,
                   embedCalls, upsSt, runHist>>
    /\ UNCHANGED chunker

\* lines 72-76, the main thread: as_completed hands over a future that
\* failed; line 73 raises, the exception is logged and raised again, and
\* the main thread leaves the with block of line 68
EmbedFails(i) ==
    /\ pc = "embed"
    /\ workers > 1
    /\ i \in pending
    /\ futures[i] = "failed"
    /\ pending' = pending \ {i}
    /\ pc' = "shutdown"
    /\ UNCHANGED <<env, main, batch, vectors, futures, payloads, embedOrder,
                   embedFailed, embedCalls, upsSt, runHist>>
    /\ UNCHANGED chunker

\* line 68: leaving the with block waits until every submitted call has
\* finished; then the exception leaves build_index, which nothing catches
ExecutorShutdown ==
    /\ pc = "shutdown"
    /\ \A i \in 1..Len(futures) : futures[i] # "submitted"
    /\ pc' = "raised"
    /\ UNCHANGED <<env, main, embedSt, upsSt, runHist>>
    /\ UNCHANGED chunker

\* line 199: q.put(payloads) blocks while the queue is full
PutBatch ==
    /\ pc = "put"
    /\ CanPut(q)
    /\ q' = Append(q, [batch |-> batchIdx, recs |-> payloads])
    /\ enqueued' = [enqueued EXCEPT ![cur] = @ \cup {batchIdx}]
    /\ pc' = "batch"
    /\ embedOrder' = <<>>
    /\ UNCHANGED <<env, main, batch, vectors, futures, pending, payloads,
                   embedFailed, embedCalls, worker, workerItem, upsertLog, runHist>>
    /\ UNCHANGED chunker

\* the manifest file is rewritten as soon as the sentinel is queued, before
\* the join
PutSentinelThenWrite ==
    /\ pc = "sentinel"
    /\ CanPut(q)
    /\ q' = Append(q, Sentinel)
    /\ pc' = "join"
    /\ manifestFile' = JsonFile([manifest EXCEPT ![DocId(cur)] = docHash])
    /\ UNCHANGED <<store, workers, maxChunks, main, embedSt, worker,
                   workerItem, upsertLog, enqueued, runHist>>
    /\ UNCHANGED chunker

\* line 200: q.put(None)
PutSentinel ==
    /\ pc = "sentinel"
    /\ CanPut(q)
    /\ q' = Append(q, Sentinel)
    /\ pc' = "join"
    /\ UNCHANGED <<env, main, embedSt, worker, workerItem, upsertLog, enqueued,
                   runHist>>
    /\ UNCHANGED chunker

\* line 201: worker.join() returns once the thread is not alive
JoinWorker ==
    /\ pc = "join"
    /\ worker \in {"exited", "dead"}
    /\ pc' = "commit"
    /\ UNCHANGED <<env, main, embedSt, upsSt, runHist>>
    /\ UNCHANGED chunker

\* line 203: manifest[doc_id] = {"hash": doc_hash}
CommitManifest ==
    /\ pc = "commit"
    /\ manifest' = [manifest EXCEPT ![DocId(cur)] = docHash]
    /\ committed' = committed \cup {cur}
    /\ pc' = "open"
    /\ UNCHANGED <<env, cur, docHash, gen, produced, batchIdx, embedSt, upsSt,
                   loaded, prevPc, baseline, reads, indexed>>
    /\ UNCHANGED chunker

\* line 204: open(manifest_path, "w") empties the file: until json.dump has
\* written it, json.load of it raises
OpenManifest ==
    /\ pc = "open"
    /\ pc' = "dump"
    /\ manifestFile' = CorruptFile
    /\ UNCHANGED <<store, workers, maxChunks, main, embedSt, upsSt, runHist>>
    /\ UNCHANGED chunker

\* lines 205 and 136: json.dump and the close of the file; next document
DumpManifest ==
    /\ pc = "dump"
    /\ manifestFile' = JsonFile(manifest)
    /\ cur' = cur + 1
    /\ pc' = "loop"
    /\ NoSession
    /\ UNCHANGED <<store, workers, maxChunks, manifest,
                   embedFailed, embedCalls, upsertLog, enqueued, runHist>>
    /\ UNCHANGED chunker

(***************************************************************************)
(* _start_upsert_worker: the upsert thread                                 *)
(***************************************************************************)
\* the thread lives as long as its process
WorkerAlive == pc \notin {"idle", "returned", "crashed"}

\* lines 83-85: q.get(); the sentinel ends the loop
WorkerGet ==
    /\ WorkerAlive
    /\ worker = "waiting"
    /\ q # <<>>
    /\ LET g == QueueGet(q)
       IN  /\ q' = g.rest
           /\ IF g.item = Sentinel
              THEN worker' = "exited" /\ workerItem' = Sentinel
              ELSE worker' = "upserting" /\ workerItem' = g.item
    /\ UNCHANGED <<env, pc, main, embedSt, upsertLog, enqueued, runHist>>
    /\ UNCHANGED chunker

\* the records of the document are deleted before its batch is written
UpsertDoneReplacingDocument ==
    /\ WorkerAlive
    /\ worker = "upserting"
    /\ store' = {id \in store : id[1] # DocId(cur)}
                    \cup {workerItem.recs[i].id : i \in 1..Len(workerItem.recs)}
    /\ upsertLog' = Append(upsertLog, [doc |-> cur, batch |-> workerItem.batch, ok |-> TRUE])
    /\ worker' = "waiting"
    /\ workerItem' = Sentinel
    /\ UNCHANGED <<manifestFile, workers, maxChunks, pc, main,
                   embedSt, q, enqueued, runHist>>
    /\ UNCHANGED chunker

\* lines 86-89: index.upsert(vectors=item) returns
UpsertDone ==
    /\ WorkerAlive
    /\ worker = "upserting"
    /\ store' = store \cup {workerItem.recs[i].id : i \in 1..Len(workerItem.recs)}
    /\ upsertLog' = Append(upsertLog, [doc |-> cur, batch |-> workerItem.batch, ok |-> TRUE])
    /\ worker' = "waiting"
    /\ workerItem' = Sentinel
    /\ UNCHANGED <<manifestFile, workers, maxChunks, pc, main,
                   embedSt, q, enqueued, runHist>>
    /\ UNCHANGED chunker

\* lines 86-89: index.upsert raises: task_done, then the exception ends the
\* thread; nothing hands it to the main thread
UpsertFails ==
    /\ WorkerAlive
    /\ worker = "upserting"
    /\ upsertLog' = Append(upsertLog, [doc |-> cur, batch |-> workerItem.batch, ok |-> FALSE])
    /\ worker' = "dead"
    /\ workerItem' = Sentinel
    /\ UNCHANGED <<env, pc, main, embedSt, q, enqueued, runHist>>
    /\ UNCHANGED chunker

Next ==
    \/ Crash
    \/ StartRun
    \/ Return
    \/ \E v \in Versions : SkipUnchanged(v)
    \/ \E v \in Versions : StartIndexing(v)
    \/ NextBatch
    \/ EmbedBatch
    \/ EmbedBatchFails
    \/ \E i \in 1..BatchSize : CallReturns(i)
    \/ \E i \in 1..BatchSize : CallRaises(i)
    \/ \E i \in 1..BatchSize : EmbedDone(i)
    \/ \E i \in 1..BatchSize : EmbedFails(i)
    \/ ExecutorShutdown
    \/ PutBatch
    \/ PutSentinel
    \/ JoinWorker
    \/ CommitManifest
    \/ OpenManifest
    \/ DumpManifest
    \/ WorkerGet
    \/ UpsertDone
    \/ UpsertFails

Spec == Init /\ [][Next]_vars

(***************************************************************************)
(* The same program in an environment that also presents files that cannot *)
(* be read, empty files, manifest files of another shape, and a backend    *)
(* that answers with too few vectors.                                      *)
(***************************************************************************)
FaultyManifests ==
    { AbsentFile, CorruptFile, JsonFile(NotAMapping),
      JsonFile([d \in Docs |-> IF d = NumDocs THEN NotAnObject ELSE NoEntry]) }

\* chunking.py line 7, run as build_index.py line 19 imports the module:
\* tiktoken.get_encoding raises for a name it does not know, and the process
\* ends before build_index is called
ImportFails ==
    /\ pc \in Ended
    /\ encoding = NoSuchEncoding
    /\ pc' = "raised"
    /\ UNCHANGED <<env, main, embedSt, upsSt, runHist>>
    /\ UNCHANGED chunker

FaultInit ==
    /\ manifestFile \in FaultyManifests
    /\ Configured \/ Misconfigured
    /\ NotStarted
    /\ ChunkerOff

FaultNext ==
    \/ Next
    \/ SkipUnchanged(Empty)
    \/ StartIndexing(Empty)
    \/ ReadFails
    \/ \E v \in Versions \cup {Empty} : LookupFails(v)
    \/ EmbedBatchShort
    \/ ImportFails

FaultSpec == FaultInit /\ [][FaultNext]_vars

(***************************************************************************)
(* iter_chunks, stepped: one action per iteration of its loops.  Its       *)
(* inputs are a text and a configuration; the pipeline stands still.       *)
(***************************************************************************)
MaxPieces == 3        \* pieces a small input text is put together from
MaxTarget == 3        \* largest target_tokens tried on the small texts
MaxOverlap == 2       \* largest overlap_tokens tried on the small texts
LongLen == 400        \* letters in the run of a long text

\* build_index's defaults for CHUNK_TARGET_TOKENS and CHUNK_OVERLAP_TOKENS
DefaultTargetTokens == 300
DefaultOverlapTokens == 40

\* the pieces of the small texts: a letter, the separators, an article header
Pieces ==
    { <<"a">>, <<" ">>, <<"\n">>, <<".", " ">>, Keyword \o <<" ", "1", ".">> }

RECURSIVE TextsOf(_)
TextsOf(n) ==
    IF n = 0 THEN {<<>>}
    ELSE LET shorter == TextsOf(n - 1)
         IN  shorter \cup {t \o p : t \in shorter, p \in Pieces}

SmallTexts == TextsOf(MaxPieces)

\* n times the letter c
LetterRun(n) == [i \in 1..n |-> "c"]

\* texts longer than one default window: a bare run, a run after a short
\* first line or a short first sentence, two runs on two lines
LongTexts ==
    { LetterRun(LongLen),
      <<"a", "b", "\n">> \o LetterRun(LongLen),
      <<"a", "b", ".", " ">> \o LetterRun(LongLen),
      LetterRun(LongLen - 150) \o <<"\n">> \o LetterRun(150) }

\* documents of two articles, each shorter than FitTarget tokens: a header
\* with its body on the same line, after a blank, or on the next line
FitTarget == 30

Header(n) == Keyword \o <<" ", n, ".">>

Bodies == { <<"a">>, <<" ", "a">>, <<"\n", "a">> }

TwoArticleTexts ==
    {Header("1") \o b1 \o <<"\n">> \o Header("2") \o b2 : b1 \in Bodies, b2 \in Bodies}

ChunkInputs ==
    {[text |-> t, target |-> tt, overlap |-> ov] :
        t \in SmallTexts, tt \in 1..MaxTarget, ov \in 0..MaxOverlap}
    \cup
    {[text |-> t, target |-> FitTarget, overlap |-> ov] :
        t \in TwoArticleTexts, ov \in 0..MaxOverlap}
    \cup
    {[text |-> t, target |-> DefaultTargetTokens, overlap |-> DefaultOverlapTokens] :
        t \in LongTexts}

ChunkInit ==
    /\ manifestFile = AbsentFile
    /\ workers = 1
    /\ maxChunks = NoCap
    /\ NotStarted
    /\ \E in \in ChunkInputs :
          /\ itText = in.text
          /\ itTarget = in.target
          /\ itOverlap = in.overlap
          /\ encoding \in EncodingsOn(BlockTexts(in.text))
    /\ itPc = "segment"
    /\ itBlocks = <<>>
    /\ itBlock = 0
    /\ itStart = 0
    /\ itEnd = 0
    /\ itWindows = 0
    /\ itYielded = <<>>
    /\ itBlockOf = <<>>

\* lines 48-51: blocks = _find_article_sections(text)
Segment ==
    /\ itPc = "segment"
    /\ itBlocks' = find_article_sections(itText)
    /\ itBlock' = 1
    /\ itStart' = 0
    /\ itPc' = "window"
    /\ UNCHANGED <<pipeline, encoding, itText, itTarget, itOverlap, itEnd,
                   itWindows, itYielded, itBlockOf>>

\* line 53: block = text[b_start:b_end]
CurBlock == Slice(itText, itBlocks[itBlock].start, itBlocks[itBlock].end)

\* line 54: avg_chars_per_token of the block being windowed
CurAvg == AvgCharsPerToken(encoding, CurBlock)

\* lines 72-80: the chunk of window w, in offsets of the whole text
ChunkLocalOffsets(blk, start, w) ==
    [content |-> w.content, start |-> start, end |-> w.end,
     section_title |-> blk.section_title, article |-> blk.article]

Chunk(blk, start, w) ==
    [content |-> w.content, start |-> blk.start + start, end |-> blk.start + w.end,
     section_title |-> blk.section_title, article |-> blk.article]

\* the number of times x occurs in the sequence s
Occurrences(s, x) == Cardinality({i \in 1..Len(s) : s[i] = x})

\* line 52: the for loop moves to the next block
NextBlock ==
    /\ itBlock' = itBlock + 1
    /\ itStart' = 0
    /\ itWindows' = 0

\* lines 56-80, an iteration that yields: the window at the cursor is cut
\* and its chunk handed to the consumer; the generator is suspended in the
\* yield of line 74 until the consumer asks for the next chunk, if it does
YieldChunk ==
    /\ itPc = "window"
    /\ itBlock <= Len(itBlocks)
    /\ itStart < Len(CurBlock)
    /\ LET w == Window(CurBlock, CurAvg, itStart, itTarget)
       IN  /\ w.content # <<>>
           /\ Occurrences(itYielded, Chunk(itBlocks[itBlock], itStart, w)) < MaxRepeats
           /\ itYielded' = Append(itYielded, Chunk(itBlocks[itBlock], itStart, w))
           /\ itBlockOf' = Append(itBlockOf, itBlock)
           /\ itEnd' = w.end
    /\ itPc' = "yielded"
    /\ UNCHANGED <<pipeline, encoding, itText, itTarget, itOverlap, itBlocks,
                   itBlock, itStart, itWindows>>

\* lines 82-85, the generator is resumed: the break at the end of the
\* block, or the cursor of the next window
Resume ==
    /\ itPc = "yielded"
    /\ IF itEnd >= Len(CurBlock)
       THEN NextBlock
       ELSE /\ itStart' = NextStart(CurAvg, itEnd, itOverlap)
            /\ itWindows' = itWindows + 1
            /\ itBlock' = itBlock
    /\ itPc' = "window"
    /\ UNCHANGED <<pipeline, encoding, itText, itTarget, itOverlap, itBlocks,
                   itEnd, itYielded, itBlockOf>>

\* lines 69-71: the trimmed window is empty: break
EmptyWindow ==
    /\ itPc = "window"
    /\ itBlock <= Len(itBlocks)
    /\ itStart < Len(CurBlock)
    /\ Window(CurBlock, CurAvg, itStart, itTarget).content = <<>>
    /\ NextBlock
    /\ UNCHANGED <<pipeline, encoding, itPc, itText, itTarget, itOverlap, itBlocks,
                   itEnd, itYielded, itBlockOf>>

\* line 56: the while condition fails
BlockExhausted ==
    /\ itPc = "window"
    /\ itBlock <= Len(itBlocks)
    /\ ~(itStart < Len(CurBlock))
    /\ NextBlock
    /\ UNCHANGED <<pipeline, encoding, itPc, itText, itTarget, itOverlap, itBlocks,
                   itEnd, itYielded, itBlockOf>>

\* line 52: no block is left, the generator is exhausted
Exhausted ==
    /\ itPc = "window"
    /\ itBlock > Len(itBlocks)
    /\ itPc' = "done"
    /\ UNCHANGED <<pipeline, encoding, itText, itTarget, itOverlap, itBlocks, itBlock,
                   itStart, itEnd, itWindows, itYielded, itBlockOf>>

ChunkNext ==
    \/ Segment
    \/ YieldChunk
    \/ Resume
    \/ EmptyWindow
    \/ BlockExhausted
    \/ Exhausted

ChunkSpec == ChunkInit /\ [][ChunkNext]_vars

\* the stepped generator and the operator iter_chunks yield the same chunks:
\* what was yielded is the head of the stream, all of it once the generator
\* is exhausted
SteppedIsIterChunks ==
    itPc # "off" =>
        LET stream == iter_chunks(encoding, itText, itTarget, itOverlap)
        IN  /\ itYielded = StreamAhead(stream, Len(itYielded))
            /\ itPc = "done" => stream = EndedStream(itYielded)

(***************************************************************************)
(* Properties                                                              *)
(***************************************************************************)
\* the upsert call of batch b of document d returned without raising
UpsertedOk(d, b) ==
    \E i \in 1..Len(upsertLog) : upsertLog[i] = [doc |-> d, batch |-> b, ok |-> TRUE]

\* positions inside a document's session (lines 170-205)
InSession ==
    pc \in {"batch", "embed", "shutdown", "put", "sentinel", "join", "commit",
            "open", "dump"}

\* the documents this run has read with a content other than the one the
\* previous run read
changedDocs ==
    {d \in 1..Min(Len(reads), Len(baseline)) :
        FileText(d, reads[d]) # FileText(d, baseline[d])}

\* the manifest file a kill at this point leaves behind
FileAfterKill == manifestFile

\* C1: a document's manifest entry is set to its new hash only after the
\* upsert of every batch enqueued for it in this run has completed
\* successfully.
C1_CommitOnlyAfterAllUpserts ==
    \A d \in committed : \A b \in enqueued[d] : UpsertedOk(d, b)

\* C2: if the upsert of a batch of a document raised, the document's
\* manifest entry is not updated to the new hash in this run.
C2_FailedUpsertLeavesManifest ==
    \A i \in 1..Len(upsertLog) :
        ~upsertLog[i].ok =>
            /\ upsertLog[i].doc \notin committed
            /\ (upsertLog[i].doc = cur /\ InSession => manifest[DocId(cur)] # docHash)

\* C3: if an embedding call of a batch fails, no record of that batch is
\* enqueued or upserted, and the document's manifest entry, in memory and
\* in the file, is what it was when the run started.
C3_FailedEmbeddingEnqueuesNothing ==
    embedFailed # 0 =>
        /\ embedFailed \notin enqueued[cur]
        /\ \A k \in 1..Len(q) : q[k].batch # embedFailed
        /\ workerItem.batch # embedFailed
        /\ \A i \in 1..Len(upsertLog) :
               ~(upsertLog[i].doc = cur /\ upsertLog[i].batch = embedFailed)
        /\ cur \notin committed
        /\ manifest[DocId(cur)] = loaded[DocId(cur)]
        /\ LoadManifest(manifestFile)[DocId(cur)] = loaded[DocId(cur)]
        /\ ~IsUnchanged(LoadManifest(manifestFile), cur, docHash)

\* C3 witness: the second batch of a document fails to embed in the thread
\* pool after the first batch was upserted.
C3_Witness ==
    /\ pc = "raised"
    /\ workers > 1
    /\ embedFailed = 2
    /\ UpsertedOk(cur, 1)

\* C4: an embedding or upsert error of one document never ends build_index
\* with that exception: the run goes on with the remaining documents.
C4_ErrorCaughtAtDocumentBoundary ==
    pc # "raised"

\* C5: at every point after a document's upserts and before the end of its
\* manifest commit, the manifest file a kill would leave holds no entry with
\* the document's hash, so the next run does not skip the document.
C5_KillBeforeCommitLeavesStaleEntry ==
    InSession => ~IsUnchanged(LoadManifest(FileAfterKill), cur, docHash)

\* C5 witness: every batch of the document is upserted, the worker took the
\* sentinel, the join returned, and the manifest is not yet committed.
C5_Witness ==
    /\ pc = "commit"
    /\ worker = "exited"
    /\ enqueued[cur] # {}
    /\ \A b \in enqueued[cur] : UpsertedOk(cur, b)

\* C6: a run that follows a run which returned, over unchanged files, makes
\* no embedding call and no upsert call: every document is skipped.
C6_SecondRunSkipsEverything ==
    (prevPc = "returned" /\ changedDocs = {}) =>
        /\ embedCalls = 0
        /\ upsertLog = <<>>
        /\ indexed = {}
        /\ ~InSession

\* C6 witness: the second run returned over unchanged files after a first
\* run that upserted records.
C6_Witness ==
    /\ pc = "returned"
    /\ prevPc = "returned"
    /\ Len(reads) = NumDocs
    /\ changedDocs = {}
    /\ store # {}

\* C7: a run that follows a run which returned, with exactly one file
\* changed, indexes that document and no other.
C7_OnlyChangedDocumentIndexed ==
    (prevPc = "returned" /\ Cardinality(changedDocs) = 1) =>
        /\ indexed \subseteq changedDocs
        /\ (pc = "returned" => indexed = changedDocs)
        /\ (InSession => cur \in changedDocs)

\* C7 witness: the run returned after indexing the one changed document and
\* embedding its chunks.
C7_Witness ==
    /\ pc = "returned"
    /\ prevPc = "returned"
    /\ Cardinality(changedDocs) = 1
    /\ indexed = changedDocs

\* C8: with workers > 1, whatever order the embedding calls complete in,
\* _embed_parallel returns one vector per text, the i-th being the vector
\* computed for the i-th text.
C8_EmbedParallelKeepsOrder ==
    (pc = "put" /\ workers > 1) =>
        /\ Len(vectors) = Len(batch)
        /\ \A i \in 1..Len(batch) : vectors[i] = BackendEmbed(batch[i].content)
        /\ \A i \in 1..Len(batch) : payloads[i].values = BackendEmbed(payloads[i].metadata.text)

\* C8 witness: the second call of a batch of two different texts completed
\* before the first.
C8_Witness ==
    /\ pc = "put"
    /\ workers > 1
    /\ Len(embedOrder) >= 2
    /\ embedOrder[1] = 2
    /\ batch[1].content # batch[2].content

\* batches queued or being upserted
InFlight == Len(q) + (IF worker = "upserting" THEN 1 ELSE 0)

\* C9: the queue never holds more than its capacity, at most capacity + 1
\* batches are queued or being upserted, and a producer at a put on a full
\* queue stays there until the consumer has taken an item.
C9_BoundedQueueBackpressure ==
    /\ [](Len(q) <= QueueMaxSize /\ InFlight <= QueueMaxSize + 1)
    /\ [][(Len(q) = QueueMaxSize /\ pc \in {"put", "sentinel"}) =>
            \/ pc' = pc /\ (q' = q \/ q' = Tail(q))
            \/ pc' = "crashed"]_vars

\* C9 witness: the queue is full, the consumer is upserting a batch and the
\* producer is at a put.
C9_Witness ==
    /\ Len(q) = QueueMaxSize
    /\ worker = "upserting"
    /\ pc \in {"put", "sentinel"}
    /\ \A k \in 1..Len(q) : q[k] # Sentinel

\* position of an upsert call in generation order
Before(a, b) == a.doc < b.doc \/ (a.doc = b.doc /\ a.batch < b.batch)

\* C10: the store receives the batches in generation order: documents in
\* run order, and within a document batch k only after batches 1..k-1.
C10_UpsertsInGenerationOrder ==
    /\ \A i, j \in 1..Len(upsertLog) : i < j => Before(upsertLog[i], upsertLog[j])
    /\ \A j \in 1..Len(upsertLog) :
           \A b \in 1..(upsertLog[j].batch - 1) :
               \E i \in 1..(j - 1) :
                   upsertLog[i].doc = upsertLog[j].doc /\ upsertLog[i].batch = b
    /\ \A k \in 1..Len(q) :
           q[k] # Sentinel =>
               \A i \in 1..Len(q[k].recs) - 1 :
                   q[k].recs[i].metadata.start <= q[k].recs[i + 1].metadata.start

\* C10 witness: three batches of the first document and then a batch of the
\* second were upserted.
C10_Witness ==
    /\ Len(upsertLog) >= 4
    /\ upsertLog[3] = [doc |-> 1, batch |-> 3, ok |-> TRUE]
    /\ upsertLog[4].doc = 2

(***************************************************************************)
(* Properties of iter_chunks and _find_article_sections (ChunkSpec)        *)
(***************************************************************************)
\* the chunk yielded last, and the one before it
LastChunk == itYielded[Len(itYielded)]
PrevChunk == itYielded[Len(itYielded) - 1]

\* C11: iter_chunks yields a finite sequence for every target_tokens >= 1 and
\* overlap_tokens >= 0: after an iteration whose emitted end is before the
\* end of the block, the cursor of the next window lies beyond the cursor of
\* the window just yielded.
C11_CursorAdvances ==
    (itPc = "window" /\ itWindows >= 1)
        => itBlocks[itBlock].start + itStart > LastChunk.start

\* C12: with target_tokens = 300 and overlap_tokens = 40, a chunk that
\* follows another chunk of the same block starts at or before the end of
\* that chunk and strictly after its start, snapped windows included.
C12_OverlapAndProgress ==
    (/\ itTarget = DefaultTargetTokens
     /\ itOverlap = DefaultOverlapTokens
     /\ Len(itYielded) >= 2
     /\ itBlockOf[Len(itYielded)] = itBlockOf[Len(itYielded) - 1])
        => /\ LastChunk.start <= PrevChunk.end
           /\ LastChunk.start > PrevChunk.start

\* C13: the blocks of _find_article_sections are ascending, do not overlap,
\* each ends where the next starts, the first starts at offset 0 and the
\* last ends at len(text).
C13_BlocksCoverText ==
    itPc \in {"window", "done"}
        => /\ itBlocks # <<>>
           /\ itBlocks[1].start = 0
           /\ itBlocks[Len(itBlocks)].end = Len(itText)
           /\ \A i \in 1..Len(itBlocks) : itBlocks[i].start <= itBlocks[i].end
           /\ \A i \in 1..(Len(itBlocks) - 1) : itBlocks[i].end = itBlocks[i + 1].start

\* the window at the cursor trims to nothing
AtEmptyWindow ==
    /\ itPc = "window"
    /\ itBlock <= Len(itBlocks)
    /\ itStart < Len(CurBlock)
    /\ Window(CurBlock, CurAvg, itStart, itTarget).content = <<>>

\* C14: every chunk yielded has 0 <= start < end <= len(text), its content
\* is text[start:end] trimmed and is not empty; a window that trims to
\* nothing yields no chunk and ends the windowing of its block.  (A chunk is
\* never altered once yielded, so the chunk yielded last stands for all.)
C14_ChunksAreTrimmedSlices ==
    /\ [](itYielded # <<>> =>
            /\ 0 <= LastChunk.start
            /\ LastChunk.start < LastChunk.end
            /\ LastChunk.end <= Len(itText)
            /\ LastChunk.content = Strip(Slice(itText, LastChunk.start, LastChunk.end))
            /\ LastChunk.content # <<>>)
    /\ [][AtEmptyWindow => (itYielded' = itYielded /\ itBlock' = itBlock + 1)]_vars

\* a chunk of a second block, whose offsets differ from those inside the
\* block, was yielded after an empty window ended the first block with text
\* of it left
C14_Witness ==
    /\ Len(itYielded) >= 2
    /\ itBlockOf[1] = 1
    /\ itBlockOf[Len(itYielded)] = 2
    /\ LastChunk.start > 0
    /\ \A i \in 1..Len(itYielded) :
          itBlockOf[i] = 1 => itYielded[i].end < itBlocks[1].end

(***************************************************************************)
(* Properties of build_index, continued                                    *)
(***************************************************************************)
\* the exception left build_index between two documents, no session open
RaisedAtLoop == pc = "raised" /\ worker = "none" /\ cur \in Docs

\* the file of the current document was read (lines 137-138 did not raise)
WasRead == Len(reads) = cur

\* C15: whatever the manifest file holds, build_index does not fail because
\* of it: no run ends with the exception of the manifest lookup.
C15_MalformedManifestIsEmpty ==
    ~(RaisedAtLoop /\ WasRead /\ manifest[DocId(cur)] = NotAnObject)

\* C16: at every point at which the process may be killed, the manifest file
\* the kill leaves behind records every document the run has already passed
\* with the hash of the content the run read.
C16_CrashKeepsCompletedDocuments ==
    pc \notin Ended =>
        \A d \in Docs :
            d < cur => IsUnchanged(LoadManifest(FileAfterKill), d,
                                   md5(FileText(d, reads[d])))

\* the chunks of every version of every file under the configuration; the
\* generator ends on each of them
ChunksOfFile ==
    [e \in Tokenizers |-> [d \in Docs |-> [v \in Versions \cup {Empty} |->
        iter_chunks(e, FileText(d, v), TargetTokens, OverlapTokens).chunks]]]

\* the first min(M, N) chunks of document d, M the cap and N the number of
\* chunks the text generates that this run read
CappedChunks(d) ==
    LET all == ChunksOfFile[encoding][d][reads[d]]
    IN  IF maxChunks = NoCap THEN all ELSE SubSeq(all, 1, Min(maxChunks, Len(all)))

\* the k-th batch of them and its records
ExpectedBatch(d, k) ==
    SubSeq(CappedChunks(d), (k - 1) * BatchSize + 1,
           Min(k * BatchSize, Len(CappedChunks(d))))

ExpectedRecords(d, k) ==
    LET b == ExpectedBatch(d, k)
    IN  BuildPayloads(d, b, [i \in 1..Len(b) |-> BackendEmbed(b[i].content)])

NumBatches(d) == (Len(CappedChunks(d)) + BatchSize - 1) \div BatchSize

\* C17: with a cap M on a document of N chunks, the batches embedded and the
\* records enqueued are, batch by batch, the first min(M, N) chunks in
\* generation order: the batch crossing the cap is cut, not dropped, and
\* once the loop is left every batch of them was enqueued and no other.
C17_CapKeepsFirstChunks ==
    InSession =>
        /\ pc \in {"embed", "shutdown", "put"} =>
              batch # <<>> /\ batch = ExpectedBatch(cur, batchIdx)
        /\ pc = "put" => payloads = ExpectedRecords(cur, batchIdx)
        /\ \A i \in 1..Len(q) :
              q[i] # Sentinel => q[i].recs = ExpectedRecords(cur, q[i].batch)
        /\ worker = "upserting" =>
              workerItem.recs = ExpectedRecords(cur, workerItem.batch)
        /\ enqueued[cur] \subseteq 1..NumBatches(cur)
        /\ pc \in {"sentinel", "join", "commit", "open", "dump"} =>
              enqueued[cur] = 1..NumBatches(cur)

\* the batch that crosses the cap is enqueued cut to one record, and the
\* document has chunks beyond the cap
C17_Witness ==
    /\ pc = "batch"
    /\ maxChunks # NoCap
    /\ batchIdx = 2
    /\ 2 \in enqueued[cur]
    /\ Len(payloads) = 1
    /\ Len(payloads) < BatchSize
    /\ produced = maxChunks
    /\ Len(ChunksOfFile[encoding][cur][reads[cur]]) > maxChunks

\* C18: a file that cannot be read does not fail the run: no run ends with
\* the exception of open() or read().
C18_UnreadableFileIsSkipped ==
    ~(RaisedAtLoop /\ ~WasRead)

\* C19: a response with fewer vectors than texts fails the indexing of the
\* document: no batch with fewer records than chunks is handed to the queue
\* or to the store.
C19_MalformedResponseIsFatal ==
    /\ pc = "put" => Len(payloads) = Len(batch)
    /\ (InSession /\ worker = "upserting") =>
          Len(workerItem.recs) = Len(ExpectedBatch(cur, workerItem.batch))

\* the ids of the records of document d's text
SessionIds(d) ==
    {<<DocId(d), CappedChunks(d)[i].start, CappedChunks(d)[i].end>> :
        i \in 1..Len(CappedChunks(d))}

\* C20: the id of a record is (doc_id, start, end) of its chunk, a chunk of
\* the document's text; so once the store holds the ids of a document's
\* text, indexing that text again adds no id to the store.
C20_ReindexingAddsNoId ==
    /\ []((InSession /\ worker = "upserting") =>
            \A i \in 1..Len(workerItem.recs) :
                LET rec == workerItem.recs[i]
                IN  /\ rec.id = <<DocId(cur), rec.metadata.start, rec.metadata.end>>
                    /\ rec.id \in SessionIds(cur))
    /\ [][(cur \in Docs /\ InSession /\ SessionIds(cur) \subseteq store)
            => store' = store]_vars

\* the run after a stopped run upserts the first batch of a document again while
\* the store already holds every id of the document's text
C20_Witness ==
    /\ prevPc = "stopped"
    /\ InSession
    /\ worker = "waiting"
    /\ Len(upsertLog) >= 1
    /\ upsertLog[Len(upsertLog)] = [doc |-> cur, batch |-> 1, ok |-> TRUE]
    /\ SessionIds(cur) # {}
    /\ SessionIds(cur) \subseteq store
    /\ cur \notin committed
    /\ NumBatches(cur) >= 2

(***************************************************************************)
(* Properties of iter_chunks, continued (ChunkSpec)                        *)
(***************************************************************************)
\* the block fits in one window: it has at most target_tokens tokens
FitsInOneWindow(blk) ==
    count_tokens(encoding, Slice(itText, blk.start, blk.end)) <= itTarget

\* C21: every chunk lies inside the block it was cut from and carries that
\* block's article number and section title; and in a document of two
\* article blocks that each fit in one window no block yields a second
\* chunk, so the document yields exactly two chunks, one per article.
C21_OneChunkPerFittingArticle ==
    /\ \A i \in 1..Len(itYielded) :
          LET blk == itBlocks[itBlockOf[i]]
          IN  /\ blk.start <= itYielded[i].start
              /\ itYielded[i].start < itYielded[i].end
              /\ itYielded[i].end <= blk.end
              /\ itYielded[i].article = blk.article
              /\ itYielded[i].section_title = blk.section_title
    /\ (/\ itPc \in {"window", "done"}
        /\ Len(itBlocks) = 2
        /\ \A k \in 1..2 : itBlocks[k].article # <<>> /\ FitsInOneWindow(itBlocks[k]))
          => /\ itWindows = 0
             /\ itPc = "done" => (Len(itYielded) = 2 /\ itBlockOf = <<1, 2>>)

(***************************************************************************)
(* Properties of build_index: termination, the upsert thread, the store    *)
(***************************************************************************)
\* C22: a document's session terminates whenever every embedding and upsert
\* call returns or raises: the producer is never at q.put with the queue
\* full and nobody left to take from it, nor at the join of a thread that
\* will never end.
C22_ProducerNeverBlocksForever ==
    /\ ~(pc \in {"put", "sentinel"} /\ ~CanPut(q) /\ worker \in {"dead", "exited"})
    /\ ~(pc = "join" /\ worker = "waiting" /\ q = <<>>)

\* C23: when build_index has returned or raised, every upsert thread it
\* started has terminated: none is left in q.get() or in an upsert.
C23_WorkerTerminatedAtExit ==
    pc \in {"returned", "raised"} => worker \in {"none", "exited", "dead"}

\* C24: build_index never deletes: no step removes a record id from the
\* store.
C24_StoreNeverShrinks == [][store \subseteq store']_vars

\* a changed document was re-indexed and committed, and the store still
\* holds an id written for its previous content that its current text does
\* not generate
C24_Witness ==
    \E d \in Docs :
        /\ prevPc = "returned"
        /\ d \in changedDocs
        /\ d \in committed
        /\ SessionIds(d) \subseteq store
        /\ \E id \in store : id[1] = DocId(d) /\ id \notin SessionIds(d)
====
